---- MODULE Spec2Model ----
(***************************************************************************)
(* Loan lifecycle and availability consistency of the library server:      *)
(* the loan routes (server/routes/loans.js), the Loan model hooks          *)
(* (server/models/Loan.js) and the Book / User records they read and       *)
(* write.  Every store operation a handler awaits is one step of the       *)
(* request that runs it, so requests interleave at the store, as they do   *)
(* on the server.                                                          *)
(***************************************************************************)
EXTENDS Integers, FiniteSets, Sequences, TLC

VARIABLES
  books,    \* Book collection:  id -> [isAvailable]
  users,    \* User collection:  id -> [isActive]
  loans,    \* Loan collection:  id -> loan document
  now,      \* the server clock (what new Date() / Date.now returns)
  nextId,   \* the next fresh loan _id
  pc,       \* per request slot: the await the handler is suspended at
  req,      \* per request slot: the request being served (route, :id, body)
  loc,      \* per request slot: the handler's local Loan document
  res,      \* per request slot: the response sent
  out,      \* per request slot: the data of the response of a read route
  snap      \* SpecSeq, SpecOne: the store and time as they were when the request in flight was issued

vars == <<books, users, loans, now, nextId, pc, req, loc, res, out, snap>>

--------------------------------------------------------------------------
(* Bounds *)

MaxLoans == 2      \* loan documents ever stored in one run of SpecSeq
MaxConcLoans == 2  \* loan documents ever stored in one run of Spec and SpecRace
MaxTime == 1       \* the clock runs 0..MaxTime

--------------------------------------------------------------------------
(* Identifiers and values *)

Procs == {"p1", "p2"}

\* Books and users that exist; "b0"/"u0" are well-formed ids of no record,
\* "zz" is a string that is not a well-formed id.
BookIds == {"b1", "b2"}
UserIds == {"u1", "u2"}

NoDate == -1       \* an unset Date field

NoDoc == [book |-> "none", user |-> "none", loanDate |-> NoDate, dueDate |-> NoDate,
          returnDate |-> NoDate, returned |-> FALSE, isOverdue |-> FALSE, notes |-> ""]

\* A request body: the set of keys it carries and their values (a key that is
\* not carried holds a filler value that no operator reads).
MkBody(ks, b, u, due, ld, ret, rd, ov) ==
  [book |-> b, user |-> u, loanDate |-> ld, dueDate |-> due, returnDate |-> rd,
   returned |-> ret, isOverdue |-> ov, notes |-> "", keys |-> ks]

\* The same body with a notes key
WithNotes(body, n) == [body EXCEPT !.keys = @ \cup {"notes"}, !.notes = n]

EmptyBody == MkBody({}, "none", "none", NoDate, NoDate, FALSE, NoDate, FALSE)

NoReq == [op |-> "none", body |-> EmptyBody, id |-> 0]

Has(body, k) == k \in body.keys

\* The data of a read route's response: the loans listed (data), their count
\* (total) and the counts of the statistics
NoOut == [data |-> {}, total |-> 0, activeLoans |-> 0, returnedLoans |-> 0, overdueLoans |-> 0]

Store == [books |-> books, users |-> users, loans |-> loans]

\* The store and the time a request is issued at
Snapshot(st, t) == [books |-> st.books, users |-> st.users, loans |-> st.loans, at |-> t]

--------------------------------------------------------------------------
(* Request validation: loanValidation + handleValidationErrors *)

IsMongoId(x) == x # "zz"

\* loans.js:40-44  param('id').isMongoId(); loan ids are 1, 2, ... and 0 is a
\* string that is not a well-formed id
IdValidation(id) == id # 0

\* loans.js:24  req.body.loanDate ? new Date(req.body.loanDate) : new Date()
RequestLoanDate(body, t) == IF Has(body, "loanDate") THEN body.loanDate ELSE t

DueDateCustomMutant(body, t) == ~(body.dueDate < RequestLoanDate(body, t))
\* loans.js:22-29  the custom validator of body('dueDate')
DueDateCustom(body, t) == ~(body.dueDate <= RequestLoanDate(body, t))

\* loans.js:12-38
LoanValidation(body, t) ==
  /\ Has(body, "book") /\ IsMongoId(body.book)
  /\ Has(body, "user") /\ IsMongoId(body.user)
  /\ Has(body, "dueDate") /\ DueDateCustom(body, t)

\* middleware/validation.js: a request with validation errors is answered with
\* the validation error and the handler does not run.
HandleValidationErrors(ok) == IF ok THEN "next" ELSE "InvalidArgument"

--------------------------------------------------------------------------
(* The Loan model *)

\* new Loan(req.body): schema defaults, then the body's fields (Loan.js:3-47)
NewLoan(body, t) ==
  [book |-> body.book, user |-> body.user,
   loanDate |-> IF Has(body, "loanDate") THEN body.loanDate ELSE t,
   dueDate |-> body.dueDate,
   returnDate |-> IF Has(body, "returnDate") THEN body.returnDate ELSE NoDate,
   returned |-> IF Has(body, "returned") THEN body.returned ELSE FALSE,
   isOverdue |-> IF Has(body, "isOverdue") THEN body.isOverdue ELSE FALSE,
   notes |-> IF Has(body, "notes") THEN body.notes ELSE ""]

\* Loan.js:22-27  document validator of dueDate
DueDateValidator(doc) == doc.dueDate > doc.loanDate

OverdueMutant(doc, t) == t > doc.dueDate
\* Loan.js:50-52  virtual 'overdue'
Overdue(doc, t) == ~doc.returned /\ t > doc.dueDate

\* Book.findByIdAndUpdate(id, { isAvailable: v }): no effect when no such book
SetAvailable(bks, b, v) ==
  IF b \in DOMAIN bks THEN [bks EXCEPT ![b].isAvailable = v] ELSE bks

PreSaveBookMutant(bks, doc, isNew, returnedModified) == bks
\* Loan.js:62-72  pre('save'): the book write
PreSaveBook(bks, doc, isNew, returnedModified) ==
  IF isNew \/ returnedModified THEN SetAvailable(bks, doc.book, doc.returned) ELSE bks

PostDeleteBookMutant(bks, doc) == bks
\* Loan.js:84-93  post('findOneAndDelete')
PostDeleteBook(bks, doc) == SetAvailable(bks, doc.book, TRUE)

Remove(f, k) == [x \in DOMAIN f \ {k} |-> f[x]]
Put(f, k, v) == [x \in DOMAIN f \cup {k} |-> IF x = k THEN v ELSE f[x]]

--------------------------------------------------------------------------
(* Request slots *)

AllIdle == \A p \in Procs : pc[p] = "idle"

CreatePcs == {"c_book", "c_user", "c_dup", "c_save", "c_insert"}

InFlightCreates == Cardinality({p \in Procs : pc[p] \in CreatePcs})

Goto(p, label) == pc' = [pc EXCEPT ![p] = label] /\ UNCHANGED <<res, out>>
Finish(p, result) ==
  pc' = [pc EXCEPT ![p] = "done"] /\ res' = [res EXCEPT ![p] = result] /\ UNCHANGED out

--------------------------------------------------------------------------
(* POST /api/loans   (loans.js:137-181) *)

StartCreateLoan(p, body) ==
  /\ pc[p] = "idle"
  /\ req' = [req EXCEPT ![p] = [op |-> "CreateLoan", body |-> body, id |-> 0]]
  /\ IF HandleValidationErrors(LoanValidation(body, now)) = "next"
       THEN Goto(p, "c_book")
       ELSE Finish(p, "InvalidArgument")
  /\ UNCHANGED <<books, users, loans, now, nextId, loc>>

CBookMutant(p) ==
  /\ pc[p] = "c_book"
  /\ LET b == req[p].body.book IN
       IF b \notin DOMAIN books THEN Finish(p, "NotFound") ELSE Goto(p, "c_user")
  /\ UNCHANGED <<books, users, loans, now, nextId, req, loc>>

\* loans.js:141-147
CBook(p) ==
  /\ pc[p] = "c_book"
  /\ LET b == req[p].body.book IN
       IF b \notin DOMAIN books THEN Finish(p, "NotFound")
       ELSE IF ~books[b].isAvailable THEN Finish(p, "Conflict")
       ELSE Goto(p, "c_user")
  /\ UNCHANGED <<books, users, loans, now, nextId, req, loc>>

CUserMutant(p) ==
  /\ pc[p] = "c_user"
  /\ LET u == req[p].body.user IN
       IF u \notin DOMAIN users THEN Finish(p, "NotFound") ELSE Goto(p, "c_dup")
  /\ UNCHANGED <<books, users, loans, now, nextId, req, loc>>

CUserNoLookupMutant(p) ==
  /\ pc[p] = "c_user"
  /\ LET u == req[p].body.user IN
       IF u \in DOMAIN users /\ ~users[u].isActive THEN Finish(p, "Conflict")
       ELSE Goto(p, "c_dup")
  /\ UNCHANGED <<books, users, loans, now, nextId, req, loc>>

\* loans.js:150-156
CUser(p) ==
  /\ pc[p] = "c_user"
  /\ LET u == req[p].body.user IN
       IF u \notin DOMAIN users THEN Finish(p, "NotFound")
       ELSE IF ~users[u].isActive THEN Finish(p, "Conflict")
       ELSE Goto(p, "c_dup")
  /\ UNCHANGED <<books, users, loans, now, nextId, req, loc>>

ExistingLoan(lns, b, u) ==
  \E l \in DOMAIN lns : lns[l].book = b /\ lns[l].user = u /\ ~lns[l].returned

CDupMutant(p) ==
  /\ pc[p] = "c_dup"
  /\ LET doc == NewLoan(req[p].body, now) IN
       IF ~DueDateValidator(doc)
         THEN Finish(p, "ValidationError") /\ UNCHANGED loc
       ELSE loc' = [loc EXCEPT ![p] = doc] /\ Goto(p, "c_save")
  /\ UNCHANGED <<books, users, loans, now, nextId, req>>

\* loans.js:159-169: the duplicate check; when it passes, Loan.create builds
\* the document (defaults are taken now) and save() validates it before any
\* save hook runs.
CDup(p) ==
  /\ pc[p] = "c_dup"
  /\ LET doc == NewLoan(req[p].body, now) IN
       IF ExistingLoan(loans, req[p].body.book, req[p].body.user)
         THEN Finish(p, "Conflict") /\ UNCHANGED loc
       ELSE IF ~DueDateValidator(doc)
         THEN Finish(p, "ValidationError") /\ UNCHANGED loc
       ELSE loc' = [loc EXCEPT ![p] = doc] /\ Goto(p, "c_save")
  /\ UNCHANGED <<books, users, loans, now, nextId, req>>

CSaveMutant(p) ==
  /\ pc[p] = "c_save"
  /\ Goto(p, "c_insert")
  /\ UNCHANGED <<books, users, loans, now, nextId, req, loc>>

\* Loan.js:62-72: the await inside pre('save') of the new document
CSave(p) ==
  /\ pc[p] = "c_save"
  /\ books' = PreSaveBook(books, loc[p], TRUE, FALSE)
  /\ Goto(p, "c_insert")
  /\ UNCHANGED <<users, loans, now, nextId, req, loc>>

CInsertMutant(p) ==
  /\ pc[p] = "c_insert"
  /\ loans' = Put(loans, nextId, loc[p])
  /\ nextId' = nextId + 1
  /\ loc' = [loc EXCEPT ![p] = NoDoc]
  /\ req' = [req EXCEPT ![p].id = nextId]
  /\ Finish(p, "Created")
  /\ UNCHANGED <<books, users, now>>

\* Loan.js:75 this.isOverdue = this.overdue, then the insert of the document
CInsert(p) ==
  /\ pc[p] = "c_insert"
  /\ loans' = Put(loans, nextId, [loc[p] EXCEPT !.isOverdue = Overdue(loc[p], now)])
  /\ nextId' = nextId + 1
  /\ loc' = [loc EXCEPT ![p] = NoDoc]
  /\ req' = [req EXCEPT ![p].id = nextId]
  /\ Finish(p, "Created")
  /\ UNCHANGED <<books, users, now>>

--------------------------------------------------------------------------
(* PUT /api/loans/:id/return   (loans.js:215-244) *)

StartReturnLoan(p, id, body) ==
  /\ pc[p] = "idle"
  /\ req' = [req EXCEPT ![p] = [op |-> "ReturnLoan", body |-> body, id |-> id]]
  /\ IF HandleValidationErrors(IdValidation(id)) = "next"
       THEN Goto(p, "r_find")
       ELSE Finish(p, "InvalidArgument")
  /\ UNCHANGED <<books, users, loans, now, nextId, loc>>

\* loans.js:229-231  if (req.body.notes) loan.notes = req.body.notes
ReturnNotes(body, old) == IF Has(body, "notes") /\ body.notes # "" THEN body.notes ELSE old

\* loans.js:216-231: the read, the guards, and the fields set on the document
RFind(p) ==
  /\ pc[p] = "r_find"
  /\ LET id == req[p].id IN
       IF id \notin DOMAIN loans
         THEN Finish(p, "NotFound") /\ UNCHANGED loc
       ELSE IF loans[id].returned
         THEN Finish(p, "Conflict") /\ UNCHANGED loc
       ELSE /\ loc' = [loc EXCEPT ![p] =
                      [loans[id] EXCEPT !.returned = TRUE, !.returnDate = now,
                                        !.notes = ReturnNotes(req[p].body, @)]]
            /\ Goto(p, "r_hook")
  /\ UNCHANGED <<books, users, loans, now, nextId, req>>

\* loans.js:233 loan.save(): returned is modified, so pre('save') writes the
\* book (Loan.js:67-72).
RHook(p) ==
  /\ pc[p] = "r_hook"
  /\ books' = PreSaveBook(books, loc[p], FALSE, TRUE)
  /\ Goto(p, "r_update")
  /\ UNCHANGED <<users, loans, now, nextId, req, loc>>

\* Loan.js:75 and the update of the stored document with the modified paths;
\* saving a document that is no longer in the collection is an error.
RUpdate(p) ==
  /\ pc[p] = "r_update"
  /\ LET id == req[p].id
         doc == loc[p]
     IN IF id \notin DOMAIN loans
          THEN Finish(p, "StoreError") /\ UNCHANGED loans
          ELSE /\ loans' = [loans EXCEPT ![id].returned = doc.returned,
                                         ![id].returnDate = doc.returnDate,
                                         ![id].notes = ReturnNotes(req[p].body, @),
                                         ![id].isOverdue =
                                            IF doc.isOverdue # Overdue(doc, now)
                                              THEN Overdue(doc, now) ELSE @]
               /\ Finish(p, "OK")
  /\ loc' = [loc EXCEPT ![p] = NoDoc]
  /\ UNCHANGED <<books, users, now, nextId, req>>

--------------------------------------------------------------------------
(* DELETE /api/loans/:id   (loans.js:249-263) *)

StartDeleteLoan(p, id) ==
  /\ pc[p] = "idle"
  /\ req' = [req EXCEPT ![p] = [op |-> "DeleteLoan", body |-> EmptyBody, id |-> id]]
  /\ IF HandleValidationErrors(IdValidation(id)) = "next"
       THEN Goto(p, "d_find")
       ELSE Finish(p, "InvalidArgument")
  /\ UNCHANGED <<books, users, loans, now, nextId, loc>>

\* loans.js:250-254
DFind(p) ==
  /\ pc[p] = "d_find"
  /\ IF req[p].id \notin DOMAIN loans THEN Finish(p, "NotFound") ELSE Goto(p, "d_delete")
  /\ UNCHANGED <<books, users, loans, now, nextId, req, loc>>

DDeleteMutant(p) ==
  /\ pc[p] = "d_delete"
  /\ LET id == req[p].id IN
       IF id \in DOMAIN loans
         THEN /\ loans' = Remove(loans, id)
              /\ loc' = [loc EXCEPT ![p] = loans[id]] /\ Goto(p, "d_hook")
         ELSE UNCHANGED <<loans, loc>> /\ Finish(p, "OK")
  /\ UNCHANGED <<books, users, now, nextId, req>>

\* loans.js:256 Loan.findByIdAndDelete: removes the document and hands it to
\* the post hook (null when it is already gone; the route answers 200 anyway).
DDelete(p) ==
  /\ pc[p] = "d_delete"
  /\ LET id == req[p].id IN
       IF id \in DOMAIN loans
         THEN /\ loans' = Remove(loans, id)
              /\ IF ~loans[id].returned
                   THEN loc' = [loc EXCEPT ![p] = loans[id]] /\ Goto(p, "d_hook")
                   ELSE UNCHANGED loc /\ Finish(p, "OK")
         ELSE UNCHANGED <<loans, loc>> /\ Finish(p, "OK")
  /\ UNCHANGED <<books, users, now, nextId, req>>

\* Loan.js:84-93 post('findOneAndDelete') of a loan that was not returned
DHook(p) ==
  /\ pc[p] = "d_hook"
  /\ books' = PostDeleteBook(books, loc[p])
  /\ loc' = [loc EXCEPT ![p] = NoDoc]
  /\ Finish(p, "OK")
  /\ UNCHANGED <<users, loans, now, nextId, req>>

--------------------------------------------------------------------------
(* PUT /api/loans/:id   (loans.js:186-210) *)

StartUpdateLoan(p, id, body) ==
  /\ pc[p] = "idle"
  /\ req' = [req EXCEPT ![p] = [op |-> "UpdateLoan", body |-> body, id |-> id]]
  /\ IF HandleValidationErrors(IdValidation(id) /\ LoanValidation(body, now)) = "next"
       THEN Goto(p, "u_find")
       ELSE Finish(p, "InvalidArgument")
  /\ UNCHANGED <<books, users, loans, now, nextId, loc>>

\* loans.js:194
OnlyNotes(body) == body.keys \subseteq {"notes"}

UFindMutant(p) ==
  /\ pc[p] = "u_find"
  /\ LET id == req[p].id IN
       IF id \in DOMAIN loans /\ loans[id].returned /\ ~OnlyNotes(req[p].body)
         THEN Finish(p, "Conflict")
         ELSE Goto(p, "u_update")
  /\ UNCHANGED <<books, users, loans, now, nextId, req, loc>>

UFindNoGuardMutant(p) ==
  /\ pc[p] = "u_find"
  /\ IF req[p].id \notin DOMAIN loans THEN Finish(p, "NotFound") ELSE Goto(p, "u_update")
  /\ UNCHANGED <<books, users, loans, now, nextId, req, loc>>

\* loans.js:187-196
UFind(p) ==
  /\ pc[p] = "u_find"
  /\ LET id == req[p].id IN
       IF id \notin DOMAIN loans THEN Finish(p, "NotFound")
       ELSE IF loans[id].returned /\ ~OnlyNotes(req[p].body) THEN Finish(p, "Conflict")
       ELSE Goto(p, "u_update")
  /\ UNCHANGED <<books, users, loans, now, nextId, req, loc>>

DueDateUpdateValidatorMutant(v) == TRUE
\* Loan.js:22-27 run as an update validator (runValidators: true): `this` is
\* then the query, not the stored document, so this.loanDate is undefined and
\* v > undefined is false for every date v.
DueDateUpdateValidator(v) == FALSE

\* The $set that findByIdAndUpdate(id, req.body) applies: no save hook runs.
ApplyUpdate(doc, body) ==
  [book |-> IF Has(body, "book") THEN body.book ELSE doc.book,
   user |-> IF Has(body, "user") THEN body.user ELSE doc.user,
   loanDate |-> IF Has(body, "loanDate") THEN body.loanDate ELSE doc.loanDate,
   dueDate |-> IF Has(body, "dueDate") THEN body.dueDate ELSE doc.dueDate,
   returnDate |-> IF Has(body, "returnDate") THEN body.returnDate ELSE doc.returnDate,
   returned |-> IF Has(body, "returned") THEN body.returned ELSE doc.returned,
   isOverdue |-> IF Has(body, "isOverdue") THEN body.isOverdue ELSE doc.isOverdue,
   notes |-> IF Has(body, "notes") THEN body.notes ELSE doc.notes]

UUpdateMutant(p) ==
  /\ pc[p] = "u_update"
  /\ loans' = IF req[p].id \in DOMAIN loans
                THEN [loans EXCEPT ![req[p].id] = ApplyUpdate(@, req[p].body)]
                ELSE loans
  /\ Finish(p, "OK")
  /\ UNCHANGED <<books, users, now, nextId, req, loc>>

\* loans.js:198-203
UUpdate(p) ==
  /\ pc[p] = "u_update"
  /\ LET id == req[p].id
         body == req[p].body
     IN IF Has(body, "dueDate") /\ ~DueDateUpdateValidator(body.dueDate)
          THEN Finish(p, "ValidationError") /\ UNCHANGED loans
          ELSE /\ loans' = IF id \in DOMAIN loans
                             THEN [loans EXCEPT ![id] = ApplyUpdate(@, body)]
                             ELSE loans
               /\ Finish(p, "OK")
  /\ UNCHANGED <<books, users, now, nextId, req, loc>>

--------------------------------------------------------------------------
(* DELETE /api/books/:id and DELETE /api/users/:id.  The repository holds two
   versions of each route: the one with idValidation and ApiError
   (StartDeleteBook, StartDeleteUser) and the plain try/catch one
   (StartDeleteBookPlain, StartDeleteUserPlain). *)

\* Loan.findOne({ book: id, returned: false })
ActiveLoanOfBook(lns, b) == \E l \in DOMAIN lns : lns[l].book = b /\ ~lns[l].returned

\* Loan.findOne({ user: id, returned: false })
ActiveLoanOfUser(lns, u) == \E l \in DOMAIN lns : lns[l].user = u /\ ~lns[l].returned

StartDeleteBook(p, b) ==
  /\ pc[p] = "idle"
  /\ req' = [req EXCEPT ![p] = [op |-> "DeleteBook", body |-> EmptyBody, id |-> b]]
  /\ IF HandleValidationErrors(IsMongoId(b)) = "next"
       THEN Goto(p, "xb_find")
       ELSE Finish(p, "InvalidArgument")
  /\ UNCHANGED <<books, users, loans, now, nextId, loc>>

\* Book.findById
XBFind(p) ==
  /\ pc[p] = "xb_find"
  /\ IF req[p].id \notin DOMAIN books THEN Finish(p, "NotFound") ELSE Goto(p, "xb_check")
  /\ UNCHANGED <<books, users, loans, now, nextId, req, loc>>

XBCheckMutant(p) ==
  /\ pc[p] = "xb_check"
  /\ Goto(p, "xb_delete")
  /\ UNCHANGED <<books, users, loans, now, nextId, req, loc>>

\* the active-loan check
XBCheck(p) ==
  /\ pc[p] = "xb_check"
  /\ IF ActiveLoanOfBook(loans, req[p].id) THEN Finish(p, "Conflict") ELSE Goto(p, "xb_delete")
  /\ UNCHANGED <<books, users, loans, now, nextId, req, loc>>

\* Book.findByIdAndDelete
XBDelete(p) ==
  /\ pc[p] = "xb_delete"
  /\ books' = Remove(books, req[p].id)
  /\ Finish(p, "OK")
  /\ UNCHANGED <<users, loans, now, nextId, req, loc>>

StartDeleteBookPlain(p, b) ==
  /\ pc[p] = "idle"
  /\ req' = [req EXCEPT ![p] = [op |-> "DeleteBook", body |-> EmptyBody, id |-> b]]
  /\ Goto(p, "yb_check")
  /\ UNCHANGED <<books, users, loans, now, nextId, loc>>

\* Loan.find({ book: id, returned: false }): an id that cannot be cast makes
\* the query throw, and the catch answers 500
YBCheck(p) ==
  /\ pc[p] = "yb_check"
  /\ IF ~IsMongoId(req[p].id) THEN Finish(p, "ServerError")
     ELSE IF ActiveLoanOfBook(loans, req[p].id) THEN Finish(p, "Conflict")
     ELSE Goto(p, "yb_delete")
  /\ UNCHANGED <<books, users, loans, now, nextId, req, loc>>

\* Book.findByIdAndDelete, then the check of what it returned
YBDelete(p) ==
  /\ pc[p] = "yb_delete"
  /\ IF req[p].id \in DOMAIN books
       THEN books' = Remove(books, req[p].id) /\ Finish(p, "OK")
       ELSE UNCHANGED books /\ Finish(p, "NotFound")
  /\ UNCHANGED <<users, loans, now, nextId, req, loc>>

StartDeleteUser(p, u) ==
  /\ pc[p] = "idle"
  /\ req' = [req EXCEPT ![p] = [op |-> "DeleteUser", body |-> EmptyBody, id |-> u]]
  /\ IF HandleValidationErrors(IsMongoId(u)) = "next"
       THEN Goto(p, "xu_find")
       ELSE Finish(p, "InvalidArgument")
  /\ UNCHANGED <<books, users, loans, now, nextId, loc>>

\* User.findById
XUFind(p) ==
  /\ pc[p] = "xu_find"
  /\ IF req[p].id \notin DOMAIN users THEN Finish(p, "NotFound") ELSE Goto(p, "xu_check")
  /\ UNCHANGED <<books, users, loans, now, nextId, req, loc>>

XUCheckMutant(p) ==
  /\ pc[p] = "xu_check"
  /\ Goto(p, "xu_delete")
  /\ UNCHANGED <<books, users, loans, now, nextId, req, loc>>

\* the active-loan check
XUCheck(p) ==
  /\ pc[p] = "xu_check"
  /\ IF ActiveLoanOfUser(loans, req[p].id) THEN Finish(p, "Conflict") ELSE Goto(p, "xu_delete")
  /\ UNCHANGED <<books, users, loans, now, nextId, req, loc>>

\* User.findByIdAndDelete
XUDelete(p) ==
  /\ pc[p] = "xu_delete"
  /\ users' = Remove(users, req[p].id)
  /\ Finish(p, "OK")
  /\ UNCHANGED <<books, loans, now, nextId, req, loc>>

StartDeleteUserPlain(p, u) ==
  /\ pc[p] = "idle"
  /\ req' = [req EXCEPT ![p] = [op |-> "DeleteUser", body |-> EmptyBody, id |-> u]]
  /\ Goto(p, "yu_check")
  /\ UNCHANGED <<books, users, loans, now, nextId, loc>>

\* Loan.find({ user: id, returned: false })
YUCheck(p) ==
  /\ pc[p] = "yu_check"
  /\ IF ~IsMongoId(req[p].id) THEN Finish(p, "ServerError")
     ELSE IF ActiveLoanOfUser(loans, req[p].id) THEN Finish(p, "Conflict")
     ELSE Goto(p, "yu_delete")
  /\ UNCHANGED <<books, users, loans, now, nextId, req, loc>>

\* User.findByIdAndDelete, then the check of what it returned
YUDelete(p) ==
  /\ pc[p] = "yu_delete"
  /\ IF req[p].id \in DOMAIN users
       THEN users' = Remove(users, req[p].id) /\ Finish(p, "OK")
       ELSE UNCHANGED users /\ Finish(p, "NotFound")
  /\ UNCHANGED <<books, loans, now, nextId, req, loc>>

--------------------------------------------------------------------------
(* The read routes of the loans: GET /api/loans (loans.js:49-112),
   GET /api/loans/overdue/list (loans.js:268-282) and
   GET /api/loans/stats/overview (loans.js:287-294).  A query is built, with
   its new Date(), when the handler reaches it, and runs at the store in the
   next step of the request. *)

FinishWith(p, result, data) ==
  /\ pc' = [pc EXCEPT ![p] = "done"]
  /\ res' = [res EXCEPT ![p] = result]
  /\ out' = [out EXCEPT ![p] = data]

GotoWith(p, label, data) ==
  /\ pc' = [pc EXCEPT ![p] = label]
  /\ out' = [out EXCEPT ![p] = data]
  /\ UNCHANGED res

\* Loan.find(filter) and Loan.countDocuments(filter) are the set of the ids of
\* the stored loans that match the filter, and its cardinality.

OverdueQueryMutant(doc, t) == doc.isOverdue
\* loans.js:269-272, 290-293, 72-73  { returned: false, dueDate: { $lt: new Date() } }
OverdueQuery(doc, t) == doc.returned = FALSE /\ doc.dueDate < t

ListQueryMutant(doc, q) ==
  /\ q.status = "active" => doc.returned = FALSE
  /\ q.status = "returned" => doc.returned = TRUE
  /\ q.overdue = "true" => doc.isOverdue
\* loans.js:61-74  the filter of GET /api/loans for ?status= and ?overdue=
ListQuery(doc, q) ==
  LET returned == IF q.overdue = "true" THEN "false"
                  ELSE IF q.status = "active" THEN "false"
                  ELSE IF q.status = "returned" THEN "true"
                  ELSE "any"
  IN /\ returned = "false" => doc.returned = FALSE
     /\ returned = "true" => doc.returned = TRUE
     /\ q.overdue = "true" => doc.dueDate < q.at

StartListLoans(p, status, overdue) ==
  /\ pc[p] = "idle"
  /\ req' = [req EXCEPT ![p] = [op |-> "ListLoans", body |-> EmptyBody, id |-> 0,
                                query |-> [at |-> now, status |-> status, overdue |-> overdue]]]
  /\ Goto(p, "l_find")
  /\ UNCHANGED <<books, users, loans, now, nextId, loc>>

\* loans.js:92-98  Loan.find(query)
LFind(p) ==
  /\ pc[p] = "l_find"
  /\ LET Filter(doc) == ListQuery(doc, req[p].query) IN
       GotoWith(p, "l_count", [out[p] EXCEPT !.data = {m \in DOMAIN loans : Filter(loans[m])}])
  /\ UNCHANGED <<books, users, loans, now, nextId, req, loc>>

\* loans.js:100  Loan.countDocuments(query)
LCount(p) ==
  /\ pc[p] = "l_count"
  /\ LET Filter(doc) == ListQuery(doc, req[p].query) IN
       FinishWith(p, "OK", [out[p] EXCEPT !.total = Cardinality({m \in DOMAIN loans : Filter(loans[m])})])
  /\ UNCHANGED <<books, users, loans, now, nextId, req, loc>>

StartOverdueList(p) ==
  /\ pc[p] = "idle"
  /\ req' = [req EXCEPT ![p] = [op |-> "OverdueList", body |-> EmptyBody, id |-> 0,
                                query |-> [at |-> now]]]
  /\ Goto(p, "o_find")
  /\ UNCHANGED <<books, users, loans, now, nextId, loc>>

\* loans.js:269-281  Loan.find(...), count: overdueLoans.length
OFind(p) ==
  /\ pc[p] = "o_find"
  /\ LET Filter(doc) == OverdueQuery(doc, req[p].query.at)
         found == {m \in DOMAIN loans : Filter(loans[m])}
     IN FinishWith(p, "OK", [out[p] EXCEPT !.data = found, !.total = Cardinality(found)])
  /\ UNCHANGED <<books, users, loans, now, nextId, req, loc>>

StartStats(p) ==
  /\ pc[p] = "idle"
  /\ req' = [req EXCEPT ![p] = [op |-> "Stats", body |-> EmptyBody, id |-> 0,
                                query |-> [at |-> NoDate]]]
  /\ Goto(p, "s_total")
  /\ UNCHANGED <<books, users, loans, now, nextId, loc>>

\* loans.js:288  Loan.countDocuments()
STotal(p) ==
  /\ pc[p] = "s_total"
  /\ GotoWith(p, "s_active", [out[p] EXCEPT !.total = Cardinality(DOMAIN loans)])
  /\ UNCHANGED <<books, users, loans, now, nextId, req, loc>>

\* loans.js:289  Loan.countDocuments({ returned: false })
SActive(p) ==
  /\ pc[p] = "s_active"
  /\ LET Filter(doc) == doc.returned = FALSE IN
       GotoWith(p, "s_returned", [out[p] EXCEPT !.activeLoans = Cardinality({m \in DOMAIN loans : Filter(loans[m])})])
  /\ UNCHANGED <<books, users, loans, now, nextId, req, loc>>

\* loans.js:290  Loan.countDocuments({ returned: true }); the handler then
\* builds the overdue query with its new Date()
SReturned(p) ==
  /\ pc[p] = "s_returned"
  /\ LET Filter(doc) == doc.returned = TRUE IN
       GotoWith(p, "s_overdue", [out[p] EXCEPT !.returnedLoans = Cardinality({m \in DOMAIN loans : Filter(loans[m])})])
  /\ req' = [req EXCEPT ![p].query.at = now]
  /\ UNCHANGED <<books, users, loans, now, nextId, loc>>

\* loans.js:291-294  Loan.countDocuments({ returned: false, dueDate: { $lt } })
SOverdue(p) ==
  /\ pc[p] = "s_overdue"
  /\ LET Filter(doc) == OverdueQuery(doc, req[p].query.at) IN
       FinishWith(p, "OK", [out[p] EXCEPT !.overdueLoans = Cardinality({m \in DOMAIN loans : Filter(loans[m])})])
  /\ UNCHANGED <<books, users, loans, now, nextId, req, loc>>

--------------------------------------------------------------------------
(* PUT /api/users/:id   (users.js:152-156): the body's isActive is stored *)

UpdateUser(u, active) ==
  /\ u \in DOMAIN users
  /\ users' = [users EXCEPT ![u].isActive = active]
  /\ UNCHANGED <<books, loans, now, nextId, pc, req, loc, res, out>>

--------------------------------------------------------------------------
(* The response is sent and the slot is free again *)

Respond(p) ==
  /\ pc[p] = "done"
  /\ pc' = [pc EXCEPT ![p] = "idle"]
  /\ req' = [req EXCEPT ![p] = NoReq]
  /\ res' = [res EXCEPT ![p] = "none"]
  /\ loc' = [loc EXCEPT ![p] = NoDoc]
  /\ out' = [out EXCEPT ![p] = NoOut]
  /\ UNCHANGED <<books, users, loans, now, nextId>>

Tick ==
  /\ now < MaxTime
  /\ now' = now + 1
  /\ UNCHANGED <<books, users, loans, nextId, pc, req, loc, res, out>>

--------------------------------------------------------------------------
(* Inputs *)

Dated(ld) == IF ld = NoDate THEN {} ELSE {"loanDate"}

\* Bodies carrying book, user, dueDate and, when ld is a date, loanDate
PlainBodies(bs, us, dues, lds) ==
  {MkBody({"book", "user", "dueDate"} \cup Dated(ld), b, u, due, ld, FALSE, NoDate, FALSE) :
     b \in bs, u \in us, due \in dues, ld \in lds}

\* The same body with further keys of the Loan schema in it
WithExtra(body, x) ==
  CASE x = "returned" -> [body EXCEPT !.keys = @ \cup {"returned"}, !.returned = TRUE]
    [] x = "isOverdue" -> [body EXCEPT !.keys = @ \cup {"isOverdue"}, !.isOverdue = TRUE]
    [] OTHER -> body

Extras == {"plain", "returned", "isOverdue"}

\* SpecSeq: every book and user reference (existing, missing, malformed) with
\* every dueDate before, at and after the loan date; and the bodies that the
\* guards let through with each extra key.
SeqBodies ==
  PlainBodies(BookIds \cup {"b0"}, UserIds \cup {"u0"}, 0..(MaxTime + 1), {NoDate, MaxTime})
  \cup PlainBodies({"zz"}, {"u1"}, {MaxTime + 1}, {NoDate})
  \cup {WithExtra(b, x) :
          b \in PlainBodies(BookIds, UserIds, {MaxTime + 1}, {NoDate}),
          x \in Extras}

ConcBodies == PlainBodies(BookIds, UserIds, {now + 1}, {NoDate})

LoanIds == 1..MaxLoans
ConcLoanIds == 1..MaxConcLoans

\* Fresh _ids left for the POSTs in flight and one more
Room(cap) == nextId + InFlightCreates <= cap

--------------------------------------------------------------------------
(* Initial stores *)

StoredLoan(b, u, ret) ==
  [book |-> b, user |-> u, loanDate |-> 0, dueDate |-> 1,
   returnDate |-> IF ret THEN 0 ELSE NoDate, returned |-> ret, isOverdue |-> FALSE,
   notes |-> ""]

ActiveOn(lns, b) == {l \in DOMAIN lns : lns[l].book = b /\ ~lns[l].returned}

\* The availability flag as the loan set determines it
Synced(lns) == [b \in BookIds |-> [isAvailable |-> ActiveOn(lns, b) = {}]]

NoLoans == [l \in {} |-> NoDoc]

\* Stores a server can be left with when no request is in flight, each with
\* every flag agreeing with the loan set: empty; one loan out; one loan back;
\* two loans out on one book (what two racing POSTs leave, see CreateRace).
SeqInitLoans ==
  { NoLoans,
    (1 :> StoredLoan("b1", "u1", FALSE)),
    (1 :> StoredLoan("b1", "u1", TRUE)),
    (1 :> StoredLoan("b1", "u1", FALSE)) @@ (2 :> StoredLoan("b1", "u2", FALSE)) }

\* Users are created active (User.js:95-98); PUT /api/users/:id can have
\* stored isActive false since.
UsersWith(inactive) == [u \in UserIds |-> [isActive |-> u \notin inactive]]

InitStore(lns, inactive) ==
  /\ loans = lns
  /\ books = Synced(lns)
  /\ users = UsersWith(inactive)
  /\ now = 0
  /\ nextId = Cardinality(DOMAIN lns) + 1
  /\ pc = [p \in Procs |-> "idle"]
  /\ req = [p \in Procs |-> NoReq]
  /\ loc = [p \in Procs |-> NoDoc]
  /\ res = [p \in Procs |-> "none"]
  /\ out = [p \in Procs |-> NoOut]
  /\ snap = [books |-> Synced(lns), users |-> UsersWith(inactive), loans |-> lns, at |-> 0]

InitWith(lns) == InitStore(lns, {})

Init == InitWith(NoLoans)

SeqInit == \E lns \in SeqInitLoans : InitWith(lns)

--------------------------------------------------------------------------
(* Steps of the requests in flight *)

CreateStep == \E p \in Procs : CBook(p) \/ CUser(p) \/ CDup(p) \/ CSave(p) \/ CInsert(p)
ReturnStep == \E p \in Procs : RFind(p) \/ RHook(p) \/ RUpdate(p)
DeleteStep == \E p \in Procs : DFind(p) \/ DDelete(p) \/ DHook(p)
UpdateStep == \E p \in Procs : UFind(p) \/ UUpdate(p)
RespondStep == \E p \in Procs : Respond(p)

Steps ==
  (CreateStep \/ ReturnStep \/ DeleteStep \/ UpdateStep \/ RespondStep) /\ UNCHANGED snap

--------------------------------------------------------------------------
(* Spec: requests are served concurrently, interleaved at the store *)

IssueCreate ==
  \E p \in Procs, body \in ConcBodies :
    Room(MaxConcLoans) /\ StartCreateLoan(p, body) /\ UNCHANGED snap
IssueReturn == \E p \in Procs, id \in ConcLoanIds : StartReturnLoan(p, id, EmptyBody) /\ UNCHANGED snap
IssueDelete == \E p \in Procs, id \in ConcLoanIds : StartDeleteLoan(p, id) /\ UNCHANGED snap
IssueUpdate ==
  \E p \in Procs, id \in ConcLoanIds, body \in ConcBodies :
    StartUpdateLoan(p, id, body) /\ UNCHANGED snap

Next == IssueCreate \/ IssueReturn \/ IssueDelete \/ IssueUpdate \/ Steps

Spec == Init /\ [][Next]_vars

--------------------------------------------------------------------------
(* SpecSeq: one request at a time, each completing before the next is issued *)

SeqCreate ==
  \E body \in SeqBodies :
    AllIdle /\ Room(MaxLoans) /\ StartCreateLoan("p1", body) /\ snap' = Snapshot(Store, now)
SeqReturn == \E id \in LoanIds : AllIdle /\ StartReturnLoan("p1", id, EmptyBody) /\ snap' = Snapshot(Store, now)
SeqDelete == \E id \in LoanIds : AllIdle /\ StartDeleteLoan("p1", id) /\ snap' = Snapshot(Store, now)
SeqUserUpdate ==
  \E u \in {"u2"}, a \in BOOLEAN :
    AllIdle /\ UpdateUser(u, a) /\ snap' = [snap EXCEPT !.users = users']
SeqTick == Tick /\ snap' = IF AllIdle THEN [snap EXCEPT !.at = now'] ELSE snap
SeqSteps == (CreateStep \/ ReturnStep \/ DeleteStep) /\ UNCHANGED snap
SeqRespond == RespondStep /\ snap' = Snapshot(Store, now)

SeqNext ==
  SeqCreate \/ SeqReturn \/ SeqDelete \/ SeqUserUpdate \/ SeqTick \/ SeqSteps \/ SeqRespond

SpecSeq == SeqInit /\ [][SeqNext]_vars

--------------------------------------------------------------------------
(* SpecOne: one POST /api/loans, served alone, on each of the initial stores
   and with the clock running while it is served *)

OneInit == \E lns \in SeqInitLoans, inactive \in {{}, {"u2"}} : InitStore(lns, inactive)

OneIssue ==
  \E body \in SeqBodies :
    /\ res["p1"] = "none"
    /\ StartCreateLoan("p1", body)
    /\ snap' = Snapshot(Store, now)
OneSteps == CreateStep /\ UNCHANGED snap
OneTick == Tick /\ snap' = IF AllIdle THEN [snap EXCEPT !.at = now'] ELSE snap

OneNext == OneIssue \/ OneSteps \/ OneTick

SpecOne == OneInit /\ [][OneNext]_vars

--------------------------------------------------------------------------
(* SpecRace: two POST /api/loans requests, each issued once, on a store with
   every book available and no loan *)

RaceIssue ==
  \E p \in Procs, body \in ConcBodies :
    Room(MaxConcLoans) /\ StartCreateLoan(p, body) /\ UNCHANGED snap
RaceSteps == CreateStep /\ UNCHANGED snap

RaceNext == RaceIssue \/ RaceSteps

SpecRace == Init /\ [][RaceNext]_vars

--------------------------------------------------------------------------
(* SpecOps: returns, deletions and updates of loans, and deletions of books
   and users, one request at a time, on stores that hold loans already *)

\* A loan made at time 0 with a loanDate and a dueDate in the past: it is
\* stored with isOverdue true (Loan.js:75)
PastDueLoan(b, u) ==
  [StoredLoan(b, u, FALSE) EXCEPT !.loanDate = -3, !.dueDate = -2, !.isOverdue = TRUE]

\* The stores of SeqInitLoans and: a loan stored overdue; a loan back and the
\* same book out again; a loan out on each book.
OpsInitLoans ==
  SeqInitLoans \cup
  { (1 :> PastDueLoan("b1", "u1")),
    (1 :> StoredLoan("b1", "u1", TRUE)) @@ (2 :> StoredLoan("b1", "u2", FALSE)),
    (1 :> StoredLoan("b1", "u1", FALSE)) @@ (2 :> StoredLoan("b2", "u2", FALSE)) }

OpsInit == \E lns \in OpsInitLoans : InitWith(lns)

\* :id of the loan routes: an id that is not well-formed, ids of stored loans
\* and ids of no loan
OpsLoanIds == 0..MaxLoans

\* Bodies of PUT /api/loans/:id/return
ReturnBodies == {EmptyBody, WithNotes(EmptyBody, "n1")}

\* Bodies of PUT /api/loans/:id: the fields loanValidation asks for with a
\* dueDate before and after the loan date; the same with notes; the same with
\* returned: false; notes alone; dueDate alone
UpdateBodies ==
  LET full == PlainBodies({"b1"}, {"u1"}, {MaxTime + 1}, {NoDate}) IN
    PlainBodies({"b1"}, {"u1"}, {0, MaxTime + 1}, {NoDate})
    \cup {WithNotes(b, "n1") : b \in full}
    \cup {[b EXCEPT !.keys = @ \cup {"returned"}] : b \in full}
    \cup {WithNotes(EmptyBody, "n1")}
    \cup {MkBody({"dueDate"}, "none", "none", MaxTime + 1, NoDate, FALSE, NoDate, FALSE)}

OpsReturn ==
  \E id \in OpsLoanIds, body \in ReturnBodies :
    AllIdle /\ StartReturnLoan("p1", id, body) /\ snap' = Snapshot(Store, now)
OpsDelete ==
  \E id \in OpsLoanIds : AllIdle /\ StartDeleteLoan("p1", id) /\ snap' = Snapshot(Store, now)
OpsUpdate ==
  \E id \in OpsLoanIds, body \in UpdateBodies :
    AllIdle /\ StartUpdateLoan("p1", id, body) /\ snap' = Snapshot(Store, now)
OpsDeleteBook ==
  \E b \in BookIds \cup {"b0", "zz"} :
    /\ AllIdle /\ snap' = Snapshot(Store, now)
    /\ StartDeleteBook("p1", b) \/ StartDeleteBookPlain("p1", b)
OpsDeleteUser ==
  \E u \in UserIds \cup {"u0", "zz"} :
    /\ AllIdle /\ snap' = Snapshot(Store, now)
    /\ StartDeleteUser("p1", u) \/ StartDeleteUserPlain("p1", u)

DeleteBookStep == \E p \in Procs : XBFind(p) \/ XBCheck(p) \/ XBDelete(p) \/ YBCheck(p) \/ YBDelete(p)
DeleteUserStep == \E p \in Procs : XUFind(p) \/ XUCheck(p) \/ XUDelete(p) \/ YUCheck(p) \/ YUDelete(p)

OpsSteps ==
  (ReturnStep \/ DeleteStep \/ UpdateStep \/ DeleteBookStep \/ DeleteUserStep) /\ UNCHANGED snap

OpsNext ==
  \/ OpsReturn \/ OpsDelete \/ OpsUpdate \/ OpsDeleteBook \/ OpsDeleteUser
  \/ OpsSteps \/ SeqRespond \/ SeqTick

SpecOps == OpsInit /\ [][OpsNext]_vars

--------------------------------------------------------------------------
(* SpecTerm: returns, updates, deletions and creations served concurrently on
   a store that holds one loan, out or back *)

TermInit ==
  \E lns \in {(1 :> StoredLoan("b1", "u1", FALSE)), (1 :> StoredLoan("b1", "u1", TRUE))} :
    InitWith(lns)

\* Bodies of PUT /api/loans/:id: the validated fields alone, with
\* returned: false, and notes alone
TermBodies ==
  LET full == PlainBodies({"b1"}, {"u1"}, {MaxTime + 1}, {NoDate}) IN
    full \cup {[b EXCEPT !.keys = @ \cup {"returned"}] : b \in full}
         \cup {WithNotes(EmptyBody, "n1")}

TermCreate ==
  \E p \in Procs, body \in PlainBodies({"b1"}, {"u2"}, {MaxTime + 1}, {NoDate}) :
    Room(MaxConcLoans) /\ StartCreateLoan(p, body) /\ UNCHANGED snap
TermReturn ==
  \E p \in Procs, id \in ConcLoanIds : StartReturnLoan(p, id, EmptyBody) /\ UNCHANGED snap
TermDelete ==
  \E p \in Procs, id \in ConcLoanIds : StartDeleteLoan(p, id) /\ UNCHANGED snap
TermUpdate ==
  \E p \in Procs, id \in ConcLoanIds, body \in TermBodies :
    StartUpdateLoan(p, id, body) /\ UNCHANGED snap

TermNext == TermCreate \/ TermReturn \/ TermDelete \/ TermUpdate \/ Steps

SpecTerm == TermInit /\ [][TermNext]_vars

--------------------------------------------------------------------------
(* SpecGuardRace: a POST /api/loans and a deletion of a book or of a user,
   each issued once, served concurrently on a store with no loan *)

GuardRaceCreate ==
  \E p \in Procs, body \in ConcBodies :
    Room(MaxConcLoans) /\ StartCreateLoan(p, body) /\ UNCHANGED snap
GuardRaceDeleteBook ==
  \E p \in Procs, b \in BookIds :
    (StartDeleteBook(p, b) \/ StartDeleteBookPlain(p, b)) /\ UNCHANGED snap
GuardRaceDeleteUser ==
  \E p \in Procs, u \in UserIds :
    (StartDeleteUser(p, u) \/ StartDeleteUserPlain(p, u)) /\ UNCHANGED snap
GuardRaceSteps == (CreateStep \/ DeleteBookStep \/ DeleteUserStep) /\ UNCHANGED snap

GuardRaceNext == GuardRaceCreate \/ GuardRaceDeleteBook \/ GuardRaceDeleteUser \/ GuardRaceSteps

SpecGuardRace == Init /\ [][GuardRaceNext]_vars

--------------------------------------------------------------------------
(* SpecRead: the read routes and returns, one request at a time, with the
   clock running, on stores whose loans fall due before, at and after the
   times of the run *)

\* A loan made at time 0 that falls due at time 0: stored with isOverdue
\* false, and overdue from time 1 on
DueAtStartLoan(b, u) == [StoredLoan(b, u, FALSE) EXCEPT !.loanDate = -3, !.dueDate = 0]

ReadInitLoans ==
  { (1 :> PastDueLoan("b1", "u1")) @@ (2 :> DueAtStartLoan("b2", "u2")),
    (1 :> DueAtStartLoan("b1", "u1")) @@ (2 :> StoredLoan("b2", "u2", FALSE)),
    (1 :> PastDueLoan("b1", "u1")) @@ (2 :> StoredLoan("b2", "u2", TRUE)) }

ReadInit == \E lns \in ReadInitLoans : InitWith(lns)

ReadList ==
  \E status \in {"", "active", "returned"}, overdue \in {"", "true"} :
    AllIdle /\ StartListLoans("p1", status, overdue) /\ snap' = Snapshot(Store, now)
ReadOverdueList == AllIdle /\ StartOverdueList("p1") /\ snap' = Snapshot(Store, now)
ReadStats == AllIdle /\ StartStats("p1") /\ snap' = Snapshot(Store, now)
ReadReturn ==
  \E id \in DOMAIN loans : AllIdle /\ StartReturnLoan("p1", id, EmptyBody) /\ snap' = Snapshot(Store, now)

ReadStep ==
  \E p \in Procs :
    LFind(p) \/ LCount(p) \/ OFind(p) \/ STotal(p) \/ SActive(p) \/ SReturned(p) \/ SOverdue(p)

ReadSteps == (ReadStep \/ ReturnStep) /\ UNCHANGED snap

ReadNext ==
  ReadList \/ ReadOverdueList \/ ReadStats \/ ReadReturn \/ ReadSteps \/ SeqRespond \/ SeqTick

SpecRead == ReadInit /\ [][ReadNext]_vars

--------------------------------------------------------------------------
(* SpecWrite: creations, returns and updates of loans, one request at a time,
   with the clock running, and with bodies that carry loanDate, isOverdue and
   dueDates before and after the stored dates *)

\* Bodies with a loanDate and a dueDate: both in the past; both ahead; equal
DatedBodies ==
  PlainBodies({"b1"}, {"u1"}, {-2}, {-3})
  \cup PlainBodies({"b1"}, {"u1"}, {MaxTime, MaxTime + 1}, {MaxTime})

\* Bodies without loanDate, due at the next time and later, plain and with
\* isOverdue: true
UndatedBodies ==
  LET plain == PlainBodies({"b1"}, {"u1"}, {1, MaxTime + 1}, {NoDate}) IN
    plain \cup {WithExtra(b, "isOverdue") : b \in plain}

WriteBodies == DatedBodies \cup UndatedBodies

WriteInit == \E lns \in {NoLoans, (1 :> PastDueLoan("b1", "u1"))} : InitWith(lns)

WriteCreate ==
  \E body \in WriteBodies :
    AllIdle /\ Room(MaxLoans) /\ StartCreateLoan("p1", body) /\ snap' = Snapshot(Store, now)
WriteReturn ==
  \E id \in DOMAIN loans :
    AllIdle /\ StartReturnLoan("p1", id, EmptyBody) /\ snap' = Snapshot(Store, now)
WriteUpdate ==
  \E id \in DOMAIN loans, body \in WriteBodies :
    AllIdle /\ StartUpdateLoan("p1", id, body) /\ snap' = Snapshot(Store, now)

WriteSteps == (CreateStep \/ ReturnStep \/ UpdateStep) /\ UNCHANGED snap

WriteNext == WriteCreate \/ WriteReturn \/ WriteUpdate \/ WriteSteps \/ SeqRespond \/ SeqTick

SpecWrite == WriteInit /\ [][WriteNext]_vars

--------------------------------------------------------------------------
(* POST /api/books and PUT /api/books/:id *)

\* A body of the book routes: the keys it carries and the value of isAvailable
BookBody(ks, avail) == [keys |-> ks, isAvailable |-> avail]

\* bookValidation: title and author must be there; the other rules are on
\* optional fields, and no rule names isAvailable
BookValidation(body) == Has(body, "title") /\ Has(body, "author")

\* ObjectIds of books that are not in the initial stores
FreshBookIds == {"b3", "b4"}

\* new Book(req.body): the schema default, then the body's field
NewBook(body) ==
  [isAvailable |-> IF Has(body, "isAvailable") THEN body.isAvailable ELSE TRUE]

\* the update document req.body applied to a stored book
BookUpdate(bk, body) ==
  IF Has(body, "isAvailable") THEN [bk EXCEPT !.isAvailable = body.isAvailable] ELSE bk

StartCreateBook(p, body) ==
  /\ pc[p] = "idle"
  /\ req' = [req EXCEPT ![p] = [op |-> "CreateBook", body |-> body, id |-> "none"]]
  /\ IF HandleValidationErrors(BookValidation(body)) = "next"
       THEN Goto(p, "nb_save")
       ELSE Finish(p, "InvalidArgument")
  /\ UNCHANGED <<books, users, loans, now, nextId, loc>>

\* Book.create(req.body)
NBSave(p) ==
  /\ pc[p] = "nb_save"
  /\ FreshBookIds \ DOMAIN books # {}
  /\ LET b == CHOOSE x \in FreshBookIds \ DOMAIN books : TRUE IN
       /\ books' = Put(books, b, NewBook(req[p].body))
       /\ req' = [req EXCEPT ![p].id = b]
  /\ Finish(p, "Created")
  /\ UNCHANGED <<users, loans, now, nextId, loc>>

StartUpdateBook(p, b, body) ==
  /\ pc[p] = "idle"
  /\ req' = [req EXCEPT ![p] = [op |-> "UpdateBook", body |-> body, id |-> b]]
  /\ IF HandleValidationErrors(IsMongoId(b) /\ BookValidation(body)) = "next"
       THEN Goto(p, "ub_update")
       ELSE Finish(p, "InvalidArgument")
  /\ UNCHANGED <<books, users, loans, now, nextId, loc>>

\* Book.findByIdAndUpdate(req.params.id, req.body, ...), then the check of
\* what it returned
UBUpdate(p) ==
  /\ pc[p] = "ub_update"
  /\ IF req[p].id \in DOMAIN books
       THEN /\ books' = [books EXCEPT ![req[p].id] = BookUpdate(@, req[p].body)]
            /\ Finish(p, "OK")
       ELSE /\ UNCHANGED books
            /\ Finish(p, "NotFound")
  /\ UNCHANGED <<users, loans, now, nextId, req, loc>>

BookStep == \E p \in Procs : NBSave(p) \/ UBUpdate(p)

--------------------------------------------------------------------------
(* SpecBook: creations and updates of books, one request at a time, on stores
   that hold loans already *)

BookBodies ==
  {BookBody(ks, v) : ks \in {{"title"}, {"title", "author"}}, v \in {TRUE}}
  \cup {BookBody({"title", "author", "isAvailable"}, v) : v \in BOOLEAN}

BookCreate ==
  \E body \in BookBodies :
    /\ AllIdle /\ FreshBookIds \ DOMAIN books # {}
    /\ StartCreateBook("p1", body) /\ snap' = Snapshot(Store, now)
BookChange ==
  \E b \in DOMAIN books \cup {"zz", "b4"}, body \in BookBodies :
    AllIdle /\ StartUpdateBook("p1", b, body) /\ snap' = Snapshot(Store, now)
BookSteps == BookStep /\ UNCHANGED snap

BookNext == BookCreate \/ BookChange \/ BookSteps \/ SeqRespond

SpecBook == OpsInit /\ [][BookNext]_vars

--------------------------------------------------------------------------
(* SpecUpd: the requests of SpecSeq and PUT /api/loans/:id, one request at a
   time *)

\* Bodies of PUT /api/loans/:id that pass loanValidation: the loan's own book
\* or another one, alone and with returned: true
MoveBodies ==
  LET full == PlainBodies(BookIds, {"u1"}, {MaxTime + 1}, {NoDate}) IN
    full \cup {WithExtra(b, "returned") : b \in full}

UpdSeqUpdate ==
  \E id \in LoanIds, body \in MoveBodies :
    AllIdle /\ StartUpdateLoan("p1", id, body) /\ snap' = Snapshot(Store, now)
UpdSteps == UpdateStep /\ UNCHANGED snap

UpdNext == SeqNext \/ UpdSeqUpdate \/ UpdSteps

SpecUpd == SeqInit /\ [][UpdNext]_vars

--------------------------------------------------------------------------
(* SpecFault: creations and returns, one request at a time, on a store whose
   write of a loan can fail (the connection drops, the server rejects the
   write): save() rejects after its pre('save') hook has run *)

\* Loan.create(req.body) rejects at the insert: nothing is stored, the error
\* goes to the error handler
CInsertFail(p) ==
  /\ pc[p] = "c_insert"
  /\ loc' = [loc EXCEPT ![p] = NoDoc]
  /\ Finish(p, "StoreError")
  /\ UNCHANGED <<books, users, loans, now, nextId, req>>

\* loan.save() of the return rejects at the update of the stored document
RUpdateFail(p) ==
  /\ pc[p] = "r_update"
  /\ loc' = [loc EXCEPT ![p] = NoDoc]
  /\ Finish(p, "StoreError")
  /\ UNCHANGED <<books, users, loans, now, nextId, req>>

FaultStep == \E p \in Procs : CInsertFail(p) \/ RUpdateFail(p)

FaultInit ==
  \E lns \in {NoLoans, (1 :> StoredLoan("b1", "u1", FALSE)),
              (1 :> StoredLoan("b1", "u1", TRUE))} : InitWith(lns)

FaultCreate ==
  \E body \in PlainBodies(BookIds, {"u1"}, {MaxTime + 1}, {NoDate}) :
    AllIdle /\ Room(MaxLoans) /\ StartCreateLoan("p1", body) /\ snap' = Snapshot(Store, now)
FaultReturn ==
  \E id \in LoanIds :
    AllIdle /\ StartReturnLoan("p1", id, EmptyBody) /\ snap' = Snapshot(Store, now)
FaultSteps == (CreateStep \/ ReturnStep \/ FaultStep) /\ UNCHANGED snap

FaultNext == FaultCreate \/ FaultReturn \/ FaultSteps \/ SeqRespond \/ SeqTick

SpecFault == FaultInit /\ [][FaultNext]_vars

--------------------------------------------------------------------------
(* SpecDelFault: creations and deletions of loans, one request at a time, on a
   store whose write of the book in post('findOneAndDelete') can fail *)

\* Loan.js:86-91  Book.findByIdAndUpdate rejects inside the hook's try: the
\* catch logs the error, the hook returns, and the route answers 200
DHookFail(p) ==
  /\ pc[p] = "d_hook"
  /\ loc' = [loc EXCEPT ![p] = NoDoc]
  /\ Finish(p, "OK")
  /\ UNCHANGED <<books, users, loans, now, nextId, req>>

DelFaultDelete ==
  \E id \in LoanIds :
    AllIdle /\ StartDeleteLoan("p1", id) /\ snap' = Snapshot(Store, now)
DelFaultSteps == (CreateStep \/ DeleteStep \/ (\E p \in Procs : DHookFail(p))) /\ UNCHANGED snap

DelFaultNext == FaultCreate \/ DelFaultDelete \/ DelFaultSteps \/ SeqRespond \/ SeqTick

SpecDelFault == FaultInit /\ [][DelFaultNext]_vars

--------------------------------------------------------------------------
(* SpecDup: one POST /api/loans, served alone, on stores in which a book with
   a loan out has isAvailable true *)

\* One loan out; a loan back and another out on the same book (what the
\* return of one of two loans on a book leaves); two loans out on one book
DupInitLoans ==
  { (1 :> StoredLoan("b1", "u1", FALSE)),
    (1 :> StoredLoan("b1", "u2", TRUE)) @@ (2 :> StoredLoan("b1", "u1", FALSE)),
    (1 :> StoredLoan("b1", "u1", FALSE)) @@ (2 :> StoredLoan("b1", "u2", FALSE)) }

\* The flags of the loan set with b1 either as the loan set has it or
\* available
DupInit ==
  \E lns \in DupInitLoans, inactive \in {{}, {"u1"}}, avail \in BOOLEAN :
    LET bks == [Synced(lns) EXCEPT !["b1"].isAvailable = avail]
        usrs == UsersWith(inactive)
    IN /\ loans = lns
       /\ books = bks
       /\ users = usrs
       /\ now = 0
       /\ nextId = Cardinality(DOMAIN lns) + 1
       /\ pc = [p \in Procs |-> "idle"]
       /\ req = [p \in Procs |-> NoReq]
       /\ loc = [p \in Procs |-> NoDoc]
       /\ res = [p \in Procs |-> "none"]
       /\ out = [p \in Procs |-> NoOut]
       /\ snap = Snapshot([books |-> bks, users |-> usrs, loans |-> lns], 0)

SpecDup == DupInit /\ [][OneNext]_vars

--------------------------------------------------------------------------
(* SpecDupRace: two POST /api/loans requests, each issued once, on the empty
   store and on the stores of SpecDup *)

DupRaceInit == Init \/ DupInit

DupRaceIssue ==
  \E p \in Procs, body \in ConcBodies :
    Room(MaxConcLoans + 1) /\ StartCreateLoan(p, body) /\ UNCHANGED snap

DupRaceNext == DupRaceIssue \/ RaceSteps

SpecDupRace == DupRaceInit /\ [][DupRaceNext]_vars

--------------------------------------------------------------------------
(* SpecRef: creations, updates, returns and deletions of loans and deletions
   of books and users, one request at a time *)

\* Bodies of PUT /api/loans/:id that pass loanValidation and name a book and
\* a user that are stored, were deleted, or never existed
RefBodies == PlainBodies({"b0", "b2"}, {"u0", "u2"}, {MaxTime + 1}, {NoDate})

RefCreate ==
  \E body \in PlainBodies(BookIds, UserIds, {MaxTime + 1}, {NoDate}) :
    AllIdle /\ Room(MaxLoans) /\ StartCreateLoan("p1", body) /\ snap' = Snapshot(Store, now)
RefUpdate ==
  \E id \in LoanIds, body \in RefBodies :
    AllIdle /\ StartUpdateLoan("p1", id, body) /\ snap' = Snapshot(Store, now)
RefSteps == (CreateStep /\ UNCHANGED snap) \/ OpsSteps

RefNext ==
  \/ RefCreate \/ RefUpdate \/ OpsReturn \/ OpsDelete \/ OpsDeleteBook \/ OpsDeleteUser
  \/ RefSteps \/ SeqRespond

SpecRef == SeqInit /\ [][RefNext]_vars

--------------------------------------------------------------------------
(* SpecStatsRace: GET /api/loans/stats/overview served concurrently with
   creations, returns and deletions of loans, on a store that holds one loan *)

StatsRaceIssue == \E p \in Procs : StartStats(p) /\ UNCHANGED snap
StatsStep == \E p \in Procs : STotal(p) \/ SActive(p) \/ SReturned(p) \/ SOverdue(p)
StatsRaceSteps ==
  (StatsStep \/ CreateStep \/ ReturnStep \/ DeleteStep \/ RespondStep) /\ UNCHANGED snap
StatsRaceTick == Tick /\ UNCHANGED snap

StatsRaceNext ==
  \/ StatsRaceIssue \/ TermCreate \/ TermReturn \/ TermDelete
  \/ StatsRaceSteps \/ StatsRaceTick

SpecStatsRace == TermInit /\ [][StatsRaceNext]_vars

--------------------------------------------------------------------------
(* Properties *)

\* The availability flag of every book agrees with the loan set
AvailabilityInvariant ==
  \A b \in DOMAIN books : books[b].isAvailable <=> (ActiveOn(loans, b) = {})

ActiveOfPair(b, u) ==
  {l \in DOMAIN loans : loans[l].book = b /\ loans[l].user = u /\ ~loans[l].returned}

\* Request slot p has answered a POST /api/loans
CreateDone(p) == pc[p] = "done" /\ req[p].op = "CreateLoan"

\* SpecSeq, SpecOne: the request passed loanValidation when it was issued
PassedValidation(p) == LoanValidation(req[p].body, snap.at)

\* SpecSeq, SpecOne: no Book, User or Loan record differs from when the request was issued
NothingWritten == books = snap.books /\ users = snap.users /\ loans = snap.loans

BookWas(p, avail) ==
  /\ req[p].body.book \in DOMAIN snap.books
  /\ snap.books[req[p].body.book].isAvailable = avail

UserMissing(p) == req[p].body.user \notin DOMAIN snap.users

\* C1 (SpecSeq): with requests served one at a time from a store whose flags
\* agree with the loan set, whenever no request is in flight every book is
\* available exactly when no loan on it is out.
C1_SequentialAvailability ==
  (\A p \in Procs : pc[p] = "idle") => AvailabilityInvariant

\* C2 (SpecRace): of two POSTs for the same book, issued on a store where the
\* book is available and has no loan, exactly one is answered Created and the
\* other Conflict.
C2_ExactlyOneWins ==
  \A p, q \in Procs :
    (p # q /\ CreateDone(p) /\ CreateDone(q) /\ req[p].body.book = req[q].body.book)
      => {res[p], res[q]} = {"Created", "Conflict"}

\* C3 (Spec): in every reachable state each book has at most one loan that is
\* not returned.
C3_AtMostOneActivePerBook ==
  \A b \in BookIds : Cardinality(ActiveOn(loans, b)) <= 1

\* C4 (Spec): in every state with no request in flight, each book is available
\* exactly when no loan on it is out.
C4_QuiescentAvailability == AllIdle => AvailabilityInvariant

\* C5 (Spec): in every reachable state each (book, user) pair has at most one
\* loan that is not returned.
C5_AtMostOneActivePerPair ==
  \A b \in BookIds, u \in UserIds : Cardinality(ActiveOfPair(b, u)) <= 1

\* C6 (SpecSeq): every POST answered Created has stored a loan that is not
\* returned and has no returnDate, and has left its book unavailable.
C6_CreatedLoanIsActive ==
  \A p \in Procs :
    (CreateDone(p) /\ res[p] = "Created") =>
      /\ req[p].id \in DOMAIN loans
      /\ loans[req[p].id].returned = FALSE
      /\ loans[req[p].id].returnDate = NoDate
      /\ books[loans[req[p].id].book].isAvailable = FALSE

\* C7 as stated (SpecOne): a POST for a book that is unavailable is answered
\* Conflict whatever its user and due date are, and writes nothing.
C7_UnavailableAlwaysConflict ==
  \A p \in Procs :
    (CreateDone(p) /\ BookWas(p, FALSE)) => (res[p] = "Conflict" /\ NothingWritten)

\* C7 amended (SpecOne): a POST for a book that is unavailable writes nothing
\* and is answered Conflict whatever its user is when it passes request
\* validation, and InvalidArgument when it does not (a dueDate not after the
\* loan date); and a POST without a returned key that is answered Created
\* leaves its book unavailable, so the next POST for that book is such a one.
C7_UnavailableConflictWhenValid ==
  \A p \in Procs :
    /\ (CreateDone(p) /\ BookWas(p, FALSE)) =>
         /\ res[p] = IF PassedValidation(p) THEN "Conflict" ELSE "InvalidArgument"
         /\ NothingWritten
    /\ (CreateDone(p) /\ res[p] = "Created" /\ ~Has(req[p].body, "returned")) =>
         ~books[req[p].body.book].isAvailable

C7_Witness ==
  \E p \in Procs :
    /\ CreateDone(p) /\ BookWas(p, FALSE) /\ PassedValidation(p)
    /\ UserMissing(p) /\ res[p] = "Conflict"

\* C8 as stated (SpecOne): a POST that passes request validation and names a
\* book or a user that does not exist is answered NotFound and writes nothing.
C8_MissingAlwaysNotFound ==
  \A p \in Procs :
    (/\ CreateDone(p) /\ PassedValidation(p)
     /\ (req[p].body.book \notin DOMAIN snap.books \/ UserMissing(p)))
      => (res[p] = "NotFound" /\ NothingWritten)

\* C8 amended (SpecOne): a POST that passes request validation is answered
\* NotFound when its book does not exist, or when its book exists and is
\* available and its user does not exist; with an existing unavailable book
\* and a missing user it is answered Conflict; nothing is written in any of
\* these cases.
C8_NotFoundInGuardOrder ==
  \A p \in Procs :
    (CreateDone(p) /\ PassedValidation(p)) =>
      /\ req[p].body.book \notin DOMAIN snap.books => (res[p] = "NotFound" /\ NothingWritten)
      /\ (BookWas(p, TRUE) /\ UserMissing(p)) => (res[p] = "NotFound" /\ NothingWritten)
      /\ (BookWas(p, FALSE) /\ UserMissing(p)) => (res[p] = "Conflict" /\ NothingWritten)

C8_Witness ==
  \E p \in Procs :
    /\ CreateDone(p) /\ PassedValidation(p)
    /\ BookWas(p, TRUE) /\ UserMissing(p) /\ res[p] = "NotFound"

\* C9 (SpecOne): a POST that passes request validation, for an existing
\* available book and an existing user with isActive false, is answered
\* Conflict and writes nothing; and every POST answered Created named a user
\* whose isActive was true.
C9_InactiveUserConflict ==
  \A p \in Procs :
    LET u == req[p].body.user IN
      /\ (/\ CreateDone(p) /\ PassedValidation(p) /\ BookWas(p, TRUE)
          /\ u \in DOMAIN snap.users /\ ~snap.users[u].isActive)
           => (res[p] = "Conflict" /\ NothingWritten)
      /\ (CreateDone(p) /\ res[p] = "Created")
           => (u \in DOMAIN snap.users /\ snap.users[u].isActive)

C9_Witness ==
  \E p \in Procs :
    /\ CreateDone(p) /\ PassedValidation(p) /\ BookWas(p, TRUE)
    /\ req[p].body.user \in DOMAIN snap.users
    /\ ~snap.users[req[p].body.user].isActive
    /\ res[p] = "Conflict"

\* C10 (SpecOne): a POST whose dueDate is not strictly later than the loan
\* date (the loanDate it carries, or the time it is issued at when it carries
\* none) is answered InvalidArgument and no Loan or Book record changes.
C10_DueDateRejected ==
  \A p \in Procs :
    LET body == req[p].body
        loanDate == IF Has(body, "loanDate") THEN body.loanDate ELSE snap.at
    IN (CreateDone(p) /\ Has(body, "dueDate") /\ body.dueDate <= loanDate)
         => (res[p] = "InvalidArgument" /\ loans = snap.loans /\ books = snap.books)

C10_Witness ==
  \E p \in Procs :
    /\ CreateDone(p) /\ ~Has(req[p].body, "loanDate")
    /\ req[p].body.dueDate = snap.at /\ BookWas(p, TRUE)
    /\ res[p] = "InvalidArgument"

--------------------------------------------------------------------------
(* Properties of the loan operations served one at a time (SpecOps) *)

\* Request slot p has answered a request of the route op
OpDone(p, op) == pc[p] = "done" /\ req[p].op = op

\* The request of slot p names a loan that was stored when it was issued
LoanWas(p, ret) ==
  /\ req[p].id \in DOMAIN snap.loans
  /\ snap.loans[req[p].id].returned = ret

\* C11 (SpecOps): a return of a loan that is out answers OK and leaves the
\* loan returned, with a returnDate between the time the request was issued
\* and the time it was answered, with isOverdue false, and its book available;
\* a return of a loan that is already returned answers Conflict and writes
\* nothing (the loan keeps its returnDate, the book its flag).
C11_ReturnEffects ==
  \A p \in Procs :
    LET id == req[p].id IN
      /\ (OpDone(p, "ReturnLoan") /\ LoanWas(p, FALSE)) =>
           /\ res[p] = "OK"
           /\ id \in DOMAIN loans
           /\ loans[id].returned = TRUE
           /\ loans[id].returnDate \in snap.at..now
           /\ loans[id].isOverdue = FALSE
           /\ loans[id].book \in DOMAIN books
           /\ books[loans[id].book].isAvailable = TRUE
      /\ (OpDone(p, "ReturnLoan") /\ LoanWas(p, TRUE)) =>
           (res[p] = "Conflict" /\ NothingWritten)

C11_Witness ==
  \E p \in Procs :
    /\ OpDone(p, "ReturnLoan") /\ LoanWas(p, FALSE)
    /\ snap.loans[req[p].id].isOverdue = TRUE
    /\ ~snap.books[snap.loans[req[p].id].book].isAvailable
    /\ res[p] = "OK"

\* C12 (SpecTerm): under every interleaving of creations, returns, updates
\* and deletions, a stored loan that is returned stays returned in every step
\* that leaves it in the store.
C12_ReturnedIsTerminal ==
  [][\A l \in DOMAIN loans :
       (loans[l].returned /\ l \in DOMAIN loans') => loans'[l].returned]_vars

\* An update carrying returned: false that passed the guard of the route while
\* the loan was out, and reached the store after the loan was returned
C12_Witness ==
  \E p \in Procs :
    /\ OpDone(p, "UpdateLoan")
    /\ Has(req[p].body, "returned") /\ req[p].body.returned = FALSE
    /\ req[p].id \in DOMAIN loans /\ loans[req[p].id].returned
    /\ res[p] = "ValidationError"

\* The Book records of the time the request of slot p was issued, with the
\* book of the loan it names available
BooksWithLoanBookFree(p) ==
  [b \in DOMAIN snap.books |->
     [isAvailable |-> (b = snap.loans[req[p].id].book) \/ snap.books[b].isAvailable]]

\* C13 (SpecOps): a deletion and a return of a loan that is out, served from
\* the same store, leave the same Book records: those of that store with the
\* loan's book available and every other book as it was.
C13_DeleteRestoresAsReturn ==
  \A p \in Procs :
    ((OpDone(p, "DeleteLoan") \/ OpDone(p, "ReturnLoan")) /\ LoanWas(p, FALSE)) =>
      /\ res[p] = "OK"
      /\ snap.loans[req[p].id].book \in DOMAIN books
      /\ books = BooksWithLoanBookFree(p)

C13_Witness ==
  \E p \in Procs :
    /\ OpDone(p, "DeleteLoan") /\ LoanWas(p, FALSE) /\ res[p] = "OK"
    /\ ~snap.books[snap.loans[req[p].id].book].isAvailable
    /\ \E b \in DOMAIN snap.books : b # snap.loans[req[p].id].book /\ ~snap.books[b].isAvailable

\* C14 (SpecOps): a deletion of a loan that is returned answers OK, removes
\* that loan and no other, and leaves every Book record as it was, so a book
\* held under another loan that is out stays unavailable.
C14_DeleteReturnedKeepsBooks ==
  \A p \in Procs :
    (OpDone(p, "DeleteLoan") /\ LoanWas(p, TRUE)) =>
      /\ res[p] = "OK"
      /\ loans = Remove(snap.loans, req[p].id)
      /\ books = snap.books

C14_Witness ==
  \E p \in Procs :
    /\ OpDone(p, "DeleteLoan") /\ LoanWas(p, TRUE) /\ res[p] = "OK"
    /\ ActiveOn(loans, snap.loans[req[p].id].book) # {}
    /\ ~books[snap.loans[req[p].id].book].isAvailable

\* The request of slot p names a well-formed loan id that was not in the
\* store when it was issued
LoanMissing(p) == IdValidation(req[p].id) /\ req[p].id \notin DOMAIN snap.loans

\* C15 as stated (SpecOps): a return, a deletion or an update of a loan id
\* that is not in the store answers NotFound and writes nothing.
C15_MissingLoanNotFound ==
  \A p \in Procs :
    ((OpDone(p, "ReturnLoan") \/ OpDone(p, "DeleteLoan") \/ OpDone(p, "UpdateLoan"))
       /\ LoanMissing(p))
      => (res[p] = "NotFound" /\ NothingWritten)

\* C15 amended (SpecOps): a return or a deletion of a loan id that is not in
\* the store answers NotFound; an update of such an id answers NotFound when
\* its body passes request validation and InvalidArgument when it does not;
\* none of them writes anything; and a deletion of a stored loan answers OK
\* and leaves the id out of the store, so a second deletion of it is one of a
\* missing id.
C15_MissingLoanNotFoundWhenValid ==
  \A p \in Procs :
    /\ ((OpDone(p, "ReturnLoan") \/ OpDone(p, "DeleteLoan")) /\ LoanMissing(p))
         => (res[p] = "NotFound" /\ NothingWritten)
    /\ (OpDone(p, "UpdateLoan") /\ LoanMissing(p))
         => /\ res[p] = IF PassedValidation(p) THEN "NotFound" ELSE "InvalidArgument"
            /\ NothingWritten
    /\ (OpDone(p, "DeleteLoan") /\ ~LoanMissing(p) /\ IdValidation(req[p].id))
         => (res[p] = "OK" /\ req[p].id \notin DOMAIN loans)

\* An update with a body that passes validation, of a loan deleted before
C15_Witness ==
  \E p \in Procs :
    /\ OpDone(p, "UpdateLoan") /\ LoanMissing(p) /\ PassedValidation(p)
    /\ req[p].id < nextId
    /\ res[p] = "NotFound"

\* C16 as stated (SpecOps): an update of a returned loan whose body has a key
\* other than notes answers Conflict and leaves the loans and books as they
\* were.
C16_ReturnedUpdateConflict ==
  \A p \in Procs :
    (OpDone(p, "UpdateLoan") /\ LoanWas(p, TRUE) /\ ~OnlyNotes(req[p].body))
      => (res[p] = "Conflict" /\ loans = snap.loans /\ books = snap.books)

\* C16 amended (SpecOps): an update of a returned loan whose body has a key
\* other than notes leaves the loans and books as they were; it answers
\* Conflict when the body passes request validation (book, user and a dueDate
\* after the loan date) and InvalidArgument when it does not.
C16_ReturnedUpdateConflictWhenValid ==
  \A p \in Procs :
    (OpDone(p, "UpdateLoan") /\ LoanWas(p, TRUE) /\ ~OnlyNotes(req[p].body))
      => /\ res[p] = IF PassedValidation(p) THEN "Conflict" ELSE "InvalidArgument"
         /\ loans = snap.loans /\ books = snap.books

C16_Witness ==
  \E p \in Procs :
    /\ OpDone(p, "UpdateLoan") /\ LoanWas(p, TRUE)
    /\ Has(req[p].body, "returned") /\ PassedValidation(p)
    /\ res[p] = "Conflict"

\* C17 (SpecOps): an update of a returned loan whose body has the notes key
\* only answers OK, stores the notes and changes no other field of the loan
\* and no book.
C17_NotesOnlyAccepted ==
  \A p \in Procs :
    (OpDone(p, "UpdateLoan") /\ LoanWas(p, TRUE) /\ req[p].body.keys = {"notes"})
      => /\ res[p] = "OK"
         /\ loans = [snap.loans EXCEPT ![req[p].id].notes = req[p].body.notes]
         /\ books = snap.books

\* Loans that were out on book b / with user u when the request was issued
OutOnBook(b) == {l \in DOMAIN snap.loans : snap.loans[l].book = b /\ ~snap.loans[l].returned}
OutWithUser(u) == {l \in DOMAIN snap.loans : snap.loans[l].user = u /\ ~snap.loans[l].returned}

\* C18 (SpecOps): a deletion of a stored book answers Conflict and writes
\* nothing when a loan on the book is out, and answers OK and removes the
\* book, and nothing else, when no loan on it is out.
C18_DeleteBookGuard ==
  \A p \in Procs :
    (OpDone(p, "DeleteBook") /\ req[p].id \in DOMAIN snap.books) =>
      IF OutOnBook(req[p].id) # {}
        THEN res[p] = "Conflict" /\ req[p].id \in DOMAIN books /\ NothingWritten
        ELSE /\ res[p] = "OK"
             /\ books = Remove(snap.books, req[p].id)
             /\ loans = snap.loans /\ users = snap.users

\* A book is deleted that a returned loan still references
C18_Witness ==
  \E p \in Procs :
    /\ OpDone(p, "DeleteBook") /\ req[p].id \in DOMAIN snap.books
    /\ res[p] = "OK" /\ req[p].id \notin DOMAIN books
    /\ \E l \in DOMAIN loans : loans[l].book = req[p].id /\ loans[l].returned

\* C19 (SpecOps): a deletion of a stored user answers Conflict and writes
\* nothing when a loan of the user is out, and answers OK and removes the
\* user, and nothing else, when no loan of the user is out.
C19_DeleteUserGuard ==
  \A p \in Procs :
    (OpDone(p, "DeleteUser") /\ req[p].id \in DOMAIN snap.users) =>
      IF OutWithUser(req[p].id) # {}
        THEN res[p] = "Conflict" /\ req[p].id \in DOMAIN users /\ NothingWritten
        ELSE /\ res[p] = "OK"
             /\ users = Remove(snap.users, req[p].id)
             /\ loans = snap.loans /\ books = snap.books

\* A user is deleted that a returned loan still references
C19_Witness ==
  \E p \in Procs :
    /\ OpDone(p, "DeleteUser") /\ req[p].id \in DOMAIN snap.users
    /\ res[p] = "OK" /\ req[p].id \notin DOMAIN users
    /\ \E l \in DOMAIN loans : loans[l].user = req[p].id /\ loans[l].returned

\* C20 (SpecGuardRace): under every interleaving of a POST /api/loans with a
\* deletion of the book or of the user it names, no stored loan that is out
\* references a book or a user that is not in the store.
C20_NoLoanOutOnDeleted ==
  \A l \in DOMAIN loans :
    ~loans[l].returned => (loans[l].book \in DOMAIN books /\ loans[l].user \in DOMAIN users)

--------------------------------------------------------------------------
(* Properties of the overdue classification (SpecRead) *)

\* The stored loans that are overdue at time t, as the specification
\* classifies them
OverdueAt(t) == {l \in DOMAIN loans : loans[l].returned = FALSE /\ t > loans[l].dueDate}

\* Request slot p has answered a read that classified the loans at the time
\* in its query
OverdueReadDone(p) ==
  \/ OpDone(p, "OverdueList")
  \/ OpDone(p, "Stats")
  \/ OpDone(p, "ListLoans") /\ req[p].query.overdue = "true"

\* What the read of slot p reports as overdue: the number of loans, and the
\* loans when the route lists them
ReportedCount(p) == IF req[p].op = "Stats" THEN out[p].overdueLoans ELSE out[p].total

\* C21 (SpecRead): the overdue virtual of the model, the overdue listing, the
\* overdue filter of the loan list and the overdue count of the statistics
\* classify a loan as overdue at time t exactly when it is not returned and
\* t is after its dueDate; a loan whose dueDate is t is not overdue.
C21_OverdueClassification ==
  /\ \A l \in DOMAIN loans, t \in -3..(MaxTime + 1) :
       Overdue(loans[l], t) <=> (loans[l].returned = FALSE /\ t > loans[l].dueDate)
  /\ \A p \in Procs :
       OverdueReadDone(p) =>
         /\ ReportedCount(p) = Cardinality(OverdueAt(req[p].query.at))
         /\ req[p].op # "Stats" => out[p].data = OverdueAt(req[p].query.at)
         /\ \A l \in DOMAIN loans : Overdue(loans[l], req[p].query.at) <=> l \in OverdueAt(req[p].query.at)

\* The overdue listing answered with one loan overdue and another, that falls
\* due at the time of the query, left out
C21_Witness ==
  \E p \in Procs :
    /\ OpDone(p, "OverdueList")
    /\ out[p].data # {}
    /\ \E l \in DOMAIN loans :
         loans[l].returned = FALSE /\ loans[l].dueDate = req[p].query.at /\ l \notin out[p].data

\* C22 (SpecRead): a loan that is not returned and whose dueDate is before
\* the time of an overdue read is reported by it; a returned loan has a
\* persisted isOverdue of false, is overdue by the virtual at no time, is in
\* no overdue listing and is not counted by the statistics.
C22_ReturnedNeverOverdue ==
  /\ \A l \in DOMAIN loans :
       loans[l].returned =>
         /\ loans[l].isOverdue = FALSE
         /\ \A t \in -3..(MaxTime + 1) : ~Overdue(loans[l], t)
  /\ \A p \in Procs, l \in DOMAIN loans :
       (OverdueReadDone(p) /\ req[p].op # "Stats") =>
         /\ loans[l].returned => l \notin out[p].data
         /\ (~loans[l].returned /\ loans[l].dueDate < req[p].query.at) => l \in out[p].data
  /\ \A p \in Procs :
       OpDone(p, "Stats") =>
         out[p].overdueLoans =
           Cardinality({l \in DOMAIN loans : loans[l].dueDate < req[p].query.at}
                         \ {l \in DOMAIN loans : loans[l].returned})

\* An overdue listing answered after the return of a loan that was stored
\* overdue: the loan is past due and is not listed
C22_Witness ==
  \E p \in Procs, l \in DOMAIN loans :
    /\ OpDone(p, "OverdueList")
    /\ loans[l].returned /\ loans[l].dueDate < req[p].query.at
    /\ snap.loans[l].returned /\ loans[l].returnDate >= 0 /\ loans[l].loanDate < 0
    /\ l \notin out[p].data

\* The stored loans with every persisted isOverdue set to v
WithIsOverdue(v) == [l \in DOMAIN loans |-> [loans[l] EXCEPT !.isOverdue = v]]

\* What the read of slot p finds in the Loan collection lns
ReadOf(p, lns) ==
  LET ByList(doc) == ListQuery(doc, req[p].query)
      ByOverdue(doc) == OverdueQuery(doc, req[p].query.at)
  IN IF req[p].op = "ListLoans" THEN {m \in DOMAIN lns : ByList(lns[m])} ELSE {m \in DOMAIN lns : ByOverdue(lns[m])}

\* C24 (SpecRead): what the overdue listing, the overdue filter of the loan
\* list and the overdue count of the statistics answer is what they find in
\* the store with every persisted isOverdue false and with every persisted
\* isOverdue true: stores that differ in the persisted isOverdue only get the
\* same answer at the same time.
C24_OverdueReadsIgnoreCache ==
  \A p \in Procs :
    OverdueReadDone(p) =>
      /\ ReadOf(p, WithIsOverdue(TRUE)) = ReadOf(p, WithIsOverdue(FALSE))
      /\ ReportedCount(p) = Cardinality(ReadOf(p, WithIsOverdue(TRUE)))
      /\ req[p].op # "Stats" => out[p].data = ReadOf(p, WithIsOverdue(FALSE))

\* The loan list with overdue=true answered on a store where a loan that is
\* overdue has a persisted isOverdue of false
C24_Witness ==
  \E p \in Procs, l \in DOMAIN loans :
    /\ OpDone(p, "ListLoans") /\ req[p].query.overdue = "true"
    /\ l \in out[p].data /\ loans[l].isOverdue = FALSE

--------------------------------------------------------------------------
(* Properties of the stored loan fields (SpecWrite) *)

\* C23 (SpecWrite): every step of a creation, a return or an update that
\* stores a loan or changes a stored loan leaves it with a persisted
\* isOverdue that is true exactly when the loan is not returned and the time
\* of the step is after its dueDate.
C23_IsOverdueRefreshedOnWrite ==
  [][\A l \in DOMAIN loans' :
       (l \notin DOMAIN loans \/ loans'[l] # loans[l]) =>
         (loans'[l].isOverdue <=> (loans'[l].returned = FALSE /\ now > loans'[l].dueDate))]_vars

\* A creation with isOverdue: true in its body has stored a loan that is not
\* overdue, with isOverdue false
C23_Witness ==
  \E p \in Procs :
    /\ CreateDone(p) /\ res[p] = "Created"
    /\ Has(req[p].body, "isOverdue") /\ req[p].body.isOverdue = TRUE
    /\ loans[req[p].id].isOverdue = FALSE

\* C28 (SpecWrite): whatever creations, returns and updates have run, every
\* stored loan has its dueDate after its loanDate.
C28_DueAfterLoanDate ==
  \A l \in DOMAIN loans : loans[l].dueDate > loans[l].loanDate

\* An update that passed the request validation with a dueDate not after the
\* stored loanDate, and without a loanDate of its own, has been answered
C28_Witness ==
  \E p \in Procs :
    /\ OpDone(p, "UpdateLoan") /\ PassedValidation(p)
    /\ req[p].id \in DOMAIN loans
    /\ ~Has(req[p].body, "loanDate")
    /\ req[p].body.dueDate <= snap.loans[req[p].id].loanDate
    /\ res[p] = "ValidationError"

--------------------------------------------------------------------------
(* Order of the two writes of a creation (SpecOne) *)

\* C25 (SpecOne): in every state of a creation served alone, a loan that was
\* stored since the request was issued and is out has a book whose
\* isAvailable is false: the book is written before the loan is.
C25_BookWrittenBeforeLoan ==
  \A l \in DOMAIN loans \ DOMAIN snap.loans :
    loans[l].returned = FALSE =>
      /\ loans[l].book \in DOMAIN books
      /\ books[loans[l].book].isAvailable = FALSE

\* A creation on a book that was available has stored its loan, which is out
C25_Witness ==
  \E p \in Procs :
    /\ CreateDone(p) /\ res[p] = "Created" /\ BookWas(p, TRUE)
    /\ req[p].id \in DOMAIN loans \ DOMAIN snap.loans
    /\ loans[req[p].id].returned = FALSE

--------------------------------------------------------------------------
(* The book routes and the availability flag (SpecBook) *)

\* C27 (SpecBook): every book stored by a POST /api/books has isAvailable
\* true, and every PUT /api/books/:id leaves the isAvailable of its book as it
\* was when the request was issued, whatever the body carries.
C27_BookRoutesKeepFlag ==
  \A p \in Procs :
    /\ (OpDone(p, "CreateBook") /\ res[p] = "Created") =>
         books[req[p].id].isAvailable = TRUE
    /\ (OpDone(p, "UpdateBook") /\ req[p].id \in DOMAIN snap.books) =>
         books[req[p].id].isAvailable = snap.books[req[p].id].isAvailable

--------------------------------------------------------------------------
(* Sequences with updates of loans (SpecUpd) *)

LoanOps == {"CreateLoan", "ReturnLoan", "DeleteLoan", "UpdateLoan"}

\* C26 (SpecUpd): with requests served one at a time, updates of loans among
\* them, whenever a request on a loan has been answered every book is
\* available exactly when no loan on it is out.
C26_AvailabilityWithUpdates ==
  \A p \in Procs :
    (pc[p] = "done" /\ req[p].op \in LoanOps) => AvailabilityInvariant

\* C29 (SpecUpd): every stored loan is either out with no returnDate or
\* returned with a returnDate.
C29_TwoLoanStates ==
  \A l \in DOMAIN loans :
    \/ loans[l].returned = FALSE /\ loans[l].returnDate = NoDate
    \/ loans[l].returned = TRUE /\ loans[l].returnDate # NoDate

--------------------------------------------------------------------------
(* Failed writes (SpecFault) *)

\* C30 (SpecFault): a creation or a return whose write of the loan failed at
\* the store has left every book's isAvailable as it was when the request was
\* issued.
C30_FailedWriteAtomic ==
  \A p \in Procs :
    (pc[p] = "done" /\ req[p].op \in {"CreateLoan", "ReturnLoan"} /\ res[p] = "StoreError")
      => books = snap.books

\* C31 (SpecDelFault): a deletion of a loan that was out, answered OK, has
\* left the book of that loan available: when the write that restores the
\* flag fails, the request is not answered OK.
C31_DeleteSuccessRestoresBook ==
  \A p \in Procs :
    (OpDone(p, "DeleteLoan") /\ res[p] = "OK" /\ LoanWas(p, FALSE)) =>
      books[snap.loans[req[p].id].book].isAvailable = TRUE

--------------------------------------------------------------------------
(* The duplicate check of a creation (SpecDup) *)

\* The request of slot p names a book and a user of a loan that was out when
\* the request was issued
PairWasOut(p) == ExistingLoan(snap.loans, req[p].body.book, req[p].body.user)

\* C32 (SpecDup): a POST that passes request validation, for an existing user
\* and a book with isAvailable true, issued while a loan of that user on that
\* book is out, is answered Conflict and writes nothing.
C32_DuplicateConflictDespiteFlag ==
  \A p \in Procs :
    (/\ CreateDone(p) /\ PassedValidation(p) /\ BookWas(p, TRUE)
     /\ ~UserMissing(p) /\ PairWasOut(p))
      => (res[p] = "Conflict" /\ NothingWritten)

\* Such a POST by an active user has been answered Conflict
C32_Witness ==
  \E p \in Procs :
    /\ CreateDone(p) /\ PassedValidation(p) /\ BookWas(p, TRUE) /\ PairWasOut(p)
    /\ ~UserMissing(p) /\ snap.users[req[p].body.user].isActive
    /\ res[p] = "Conflict"

--------------------------------------------------------------------------
(* The state the duplicate rejection is taken from (SpecDupRace) *)

\* The POST of slot p has passed the book check and has not written yet, and
\* a loan of its user on its book is out: the state its duplicate check
\* rejects it from
BeforeDuplicateRejection(p) ==
  /\ pc[p] \in {"c_user", "c_dup"}
  /\ ExistingLoan(loans, req[p].body.book, req[p].body.user)

\* Another POST for the same book has written the book since it was issued
OtherWroteBook(p) ==
  \E q \in Procs \ {p} :
    /\ req[q].op = "CreateLoan" /\ req[q].body.book = req[p].body.book
    /\ pc[q] = "c_insert" \/ (pc[q] = "done" /\ res[q] = "Created")

\* The store the requests were issued on had every flag agreeing with the
\* loan set (snap is the initial store in SpecDupRace)
StartedConsistent ==
  \A b \in DOMAIN snap.books : snap.books[b].isAvailable <=> (ActiveOn(snap.loans, b) = {})

\* C36 as stated (SpecDupRace): whenever a POST is about to be rejected by
\* the duplicate check, some book's isAvailable disagrees with the loan set,
\* or did when the requests were issued.
C36_DuplicateOnlyFromInconsistent ==
  \A p \in Procs :
    BeforeDuplicateRejection(p) => (~AvailabilityInvariant \/ ~StartedConsistent)

\* C36 amended (SpecDupRace): whenever a POST is about to be rejected by the
\* duplicate check, either some book's isAvailable disagrees with the loan
\* set, or another POST for the same book, running concurrently, has written
\* the book after this one passed the book check; so a POST served with no
\* other request issued, on a store whose flags agree with the loan set, for
\* a pair with a loan out, does not get past the book check.
C36_DuplicateFromInconsistentOrRace ==
  \A p \in Procs :
    BeforeDuplicateRejection(p) => (~AvailabilityInvariant \/ OtherWroteBook(p))

\* A POST served with no other request issued is about to be rejected by the
\* duplicate check, on a store where the book of the loan is available
C36_Witness ==
  \E p \in Procs :
    /\ pc[p] = "c_dup" /\ \A q \in Procs \ {p} : pc[q] = "idle"
    /\ ExistingLoan(loans, req[p].body.book, req[p].body.user)
    /\ books[req[p].body.book].isAvailable
    /\ ~AvailabilityInvariant

--------------------------------------------------------------------------
(* Order of the two writes of a return (SpecWrite) *)

\* C33 (SpecWrite): in every state of a return in progress, while the loan is
\* stored with returned false its book has isAvailable false.
C33_BookFreedAfterLoanReturned ==
  \A p \in Procs :
    (/\ req[p].op = "ReturnLoan" /\ pc[p] \notin {"idle", "done"}
     /\ req[p].id \in DOMAIN loans /\ loans[req[p].id].returned = FALSE)
      => books[loans[req[p].id].book].isAvailable = FALSE

--------------------------------------------------------------------------
(* Two returns of one loan (SpecTerm) *)

\* C34 (SpecTerm): of two returns of the same loan, at most one is answered
\* OK (the other is answered Conflict), so the returnDate is written once.
C34_OneReturnWins ==
  \A p, q \in Procs :
    (p # q /\ OpDone(p, "ReturnLoan") /\ OpDone(q, "ReturnLoan") /\ req[p].id = req[q].id)
      => ~(res[p] = "OK" /\ res[q] = "OK")

--------------------------------------------------------------------------
(* References of the loans that are out (SpecRef) *)

\* The stored loans that are out
ActiveLoans == {l \in DOMAIN loans : loans[l].returned = FALSE}

\* C35 (SpecRef): with requests served one at a time, in every state the book
\* and the user of every loan that is out are in the store.
C35_ActiveLoanReferencesExist ==
  /\ {loans[l].book : l \in ActiveLoans} \subseteq DOMAIN books
  /\ {loans[l].user : l \in ActiveLoans} \subseteq DOMAIN users

\* An update of a loan that is out, naming a book that is not in the store,
\* has been answered, and the loan still names a stored book
C35_Witness ==
  \E p \in Procs :
    /\ OpDone(p, "UpdateLoan") /\ PassedValidation(p) /\ LoanWas(p, FALSE)
    /\ req[p].body.book \notin DOMAIN books
    /\ req[p].id \in ActiveLoans
    /\ loans[req[p].id].book \in DOMAIN books

--------------------------------------------------------------------------
(* The counts of the statistics (SpecStatsRace) *)

\* C37 (SpecStatsRace): in every answer of the statistics route the counts of
\* the loans out and of the loans returned add up to the total, and the count
\* of the overdue loans is at most the count of the loans out.
C37_StatsConsistent ==
  \A p \in Procs :
    OpDone(p, "Stats") =>
      /\ out[p].activeLoans + out[p].returnedLoans = out[p].total
      /\ out[p].overdueLoans <= out[p].activeLoans

====
